---- MODULE Spec2Model ----
(***************************************************************************)
(* State machine of src/src/App.tsx: the chat list, the active chat, the   *)
(* composer, the loading/error flags, the backend health badge, and the    *)
(* two asynchronous calls (health probe, chat request).                    *)
(*                                                                         *)
(* JavaScript strings are sequences of one-character strings.  The two     *)
(* non-string values the code can hold in a string slot are the            *)
(* one-element sequences Null and Undefined, whose element is longer than  *)
(* one character and so is never a character of a string.                  *)
(*                                                                         *)
(* Event handlers and promise continuations run to completion on the       *)
(* single event loop, and React re-renders between two discrete events, so *)
(* each handler is one atomic action that reads the current state; the     *)
(* continuation of handleSend after its await reads the values its closure *)
(* captured at dispatch start.                                             *)
(***************************************************************************)
EXTENDS Naturals, Sequences, FiniteSets

VARIABLES
    chats,            \* useState<Chat[]>([])                      line 22
    activeChatId,     \* useState<string | null>(null)             line 23
    message,          \* composer text                             line 24
    loading,          \* line 25
    error,            \* line 26
    backendStatus,    \* line 27
    now,              \* the wall clock read by Date.now() / new Date()
    pending,          \* outstanding handleSend calls suspended at the await (line 86)
    health,           \* position of the health probe: "mount", "inflight", "done"
    probes,           \* number of health requests issued so far
    effectPending,    \* the [chats] effect (lines 64-71) is scheduled to run
    clearedSince,     \* history: handleClearChat emptied a log since the latest dispatch start
    lastDispatch,     \* history: the most recently started dispatch: none yet, in flight,
                      \* or done with the answer its call got
    lastOp            \* history: the operation that produced the current state

vars == <<chats, activeChatId, message, loading, error, backendStatus, now,
          pending, health, probes, effectPending, clearedSince, lastDispatch,
          lastOp>>

----------------------------------------------------------------------------
(* Bounds *)

MaxClock == 1        \* the clock takes the values 0..MaxClock
MaxMsgs == 2         \* a dispatch starts only while the target log is shorter than this

----------------------------------------------------------------------------
(* JavaScript values *)

Null == <<"<null>">>
Undefined == <<"<undefined>">>

\* !v for a string-or-null/undefined value
Falsy(v) == v = <<>> \/ v = Null \/ v = Undefined

WhiteSpace == {" ", "\t", "\n"}

RECURSIVE TrimStart(_)
TrimStart(s) ==
    IF s # <<>> /\ Head(s) \in WhiteSpace THEN TrimStart(Tail(s)) ELSE s

RECURSIVE TrimEnd(_)
TrimEnd(s) ==
    IF s # <<>> /\ s[Len(s)] \in WhiteSpace
    THEN TrimEnd(SubSeq(s, 1, Len(s) - 1))
    ELSE s

\* a trim that returns its argument
Trim_Identity(s) == s

\* String.prototype.trim
Trim(s) == TrimEnd(TrimStart(s))

Digit(d) == <<"0", "1", "2", "3", "4", "5", "6", "7", "8", "9">>[d + 1]

\* Number.prototype.toString for a non-negative integer
RECURSIVE NumToString(_)
NumToString(n) ==
    IF n < 10 THEN <<Digit(n)>> ELSE NumToString(n \div 10) \o <<Digit(n % 10)>>

\* a bot id that is the user message's id unchanged
BotSuffix_Empty == <<>>

BotSuffix == <<"_", "b", "o", "t">>
ErrSuffix == <<"_", "e", "r", "r">>
\* the prefix of the template literal on line 94: the warning sign U+26A0 U+FE0F
\* (one element, written in ASCII) and a space
ErrorMarker == <<"U+26A0 U+FE0F", " ">>

RequestFailed == <<"Request failed">>
UnexpectedError == <<"Unexpected error">>
\* message of the TypeError fetch rejects with
FetchFailedMessage == <<"Failed to fetch">>
\* message of the SyntaxError Response.json() rejects with
JsonErrorMessage == <<"Unexpected token">>

----------------------------------------------------------------------------
(* Inputs *)

\* what the user can type into the composer
ComposerTexts ==
    { <<>>, <<" ", "\n">>, <<" ", "a", " ", "b", "\n">> }

ReplyTexts == { <<"o", "k">> }
DetailTexts == { <<"r", "l">>, <<>> }

\* what the chat endpoint can answer: the fetch rejects ("network"), or it
\* resolves with res.ok = ok and a body that parses as JSON or not; field is
\* the parsed body's `response` (ok) or `detail` (not ok), Undefined if absent
ChatResponses ==
    { [kind |-> "network", ok |-> FALSE, json |-> FALSE, field |-> Undefined] }
    \cup [kind : {"http"}, ok : {TRUE}, json : {TRUE}, field : ReplyTexts \cup {Undefined}]
    \cup [kind : {"http"}, ok : {FALSE}, json : {TRUE}, field : DetailTexts \cup {Undefined}]
    \cup [kind : {"http"}, ok : BOOLEAN, json : {FALSE}, field : {Undefined}]

\* what the health endpoint can answer; api_ready is the parsed body's field
HealthResponses ==
    { [kind |-> "network", ok |-> FALSE, json |-> FALSE, api_ready |-> "absent"] }
    \cup [kind : {"http"}, ok : BOOLEAN, json : {TRUE}, api_ready : {"true", "false", "absent"}]
    \cup [kind : {"http"}, ok : BOOLEAN, json : {FALSE}, api_ready : {"absent"}]

----------------------------------------------------------------------------
(* Helpers of the component *)

\* chats.find(c => c.id === activeChatId) is defined
HasActiveChat == \E i \in 1..Len(chats) : chats[i].id = activeChatId

\* the message log of the chat of cs with the given id (<<>> if there is none)
LogIn(cs, id) ==
    IF \E i \in 1..Len(cs) : cs[i].id = id
    THEN cs[CHOOSE i \in 1..Len(cs) : cs[i].id = id].messages
    ELSE <<>>

LogOf(id) == LogIn(chats, id)

\* an append with the branches of the conditional swapped
AppendTo_Other(cs, id, m) ==
    [i \in 1..Len(cs) |->
        IF cs[i].id # id
        THEN [cs[i] EXCEPT !.messages = Append(cs[i].messages, m)]
        ELSE cs[i]]

\* an append whose updater takes effect twice
AppendTo_Twice(cs, id, m) ==
    [i \in 1..Len(cs) |->
        IF cs[i].id = id
        THEN [cs[i] EXCEPT !.messages = cs[i].messages \o <<m, m>>]
        ELSE cs[i]]

\* an append that puts the new message first: [m, ...chat.messages]
AppendTo_Prepend(cs, id, m) ==
    [i \in 1..Len(cs) |->
        IF cs[i].id = id
        THEN [cs[i] EXCEPT !.messages = <<m>> \o cs[i].messages]
        ELSE cs[i]]

\* prev.map(chat => chat.id === id ? { ...chat, messages: [...chat.messages, m] } : chat)
AppendTo(cs, id, m) ==
    [i \in 1..Len(cs) |->
        IF cs[i].id = id
        THEN [cs[i] EXCEPT !.messages = Append(cs[i].messages, m)]
        ELSE cs[i]]

\* a clear that removes the chat: prev.filter(chat => chat.id !== id)
ClearIn_Remove(cs, id) == SelectSeq(cs, LAMBDA c : c.id # id)

\* prev.map(chat => chat.id === id ? { ...chat, messages: [] } : chat)
ClearIn(cs, id) ==
    [i \in 1..Len(cs) |->
        IF cs[i].id = id THEN [cs[i] EXCEPT !.messages = <<>>] ELSE cs[i]]

\* a sendToWatson that does not read the body of a failed response
sendToWatson_NoDetail(resp) ==
    IF resp.kind = "network"
    THEN [thrown |-> TRUE, isError |-> TRUE, value |-> FetchFailedMessage]
    ELSE IF ~resp.ok
    THEN [thrown |-> TRUE, isError |-> TRUE, value |-> RequestFailed]
    ELSE IF ~resp.json
    THEN [thrown |-> TRUE, isError |-> TRUE, value |-> JsonErrorMessage]
    ELSE [thrown |-> FALSE, isError |-> FALSE, value |-> resp.field]

\* sendToWatson: the value the promise resolves with, or the Error it rejects with
sendToWatson(resp) ==
    IF resp.kind = "network"
    THEN [thrown |-> TRUE, isError |-> TRUE, value |-> FetchFailedMessage]
    ELSE IF ~resp.json
    THEN [thrown |-> TRUE, isError |-> TRUE, value |-> JsonErrorMessage]
    ELSE IF ~resp.ok
    THEN [thrown |-> TRUE, isError |-> TRUE,
          value |-> IF Falsy(resp.field) THEN RequestFailed ELSE resp.field]
    ELSE [thrown |-> FALSE, isError |-> FALSE, value |-> resp.field]

\* err instanceof Error ? err.message : 'Unexpected error'
CatchMessage(r) == IF r.isError THEN r.value ELSE UnexpectedError

\* a finally block that is skipped when the try block throws
FinallyLoading_TryOnly(r) == r.thrown

\* the value of loading set by the finally block, lines 98-100, whatever the
\* outcome r of the call
FinallyLoading(r) == FALSE

\* a guard that also waits for the backend to be ready
SendAllowed_WhenReady ==
    ~Falsy(Trim(message)) /\ ~loading /\ ~Falsy(activeChatId) /\ backendStatus = "ready"

\* the guard of handleSend: the dispatch proceeds
SendAllowed == ~Falsy(Trim(message)) /\ ~loading /\ ~Falsy(activeChatId)

\* a probe that reports ready for every parsed 2xx answer
HealthStatus_AnyOk(resp) ==
    IF resp.kind = "network" THEN "error"
    ELSE IF ~resp.ok THEN "error"
    ELSE IF ~resp.json THEN "error"
    ELSE "ready"

\* the status checkBackendHealth sets, lines 47-51
HealthStatus(resp) ==
    IF resp.kind = "network" THEN "error"
    ELSE IF ~resp.ok THEN "error"
    ELSE IF ~resp.json THEN "error"
    ELSE IF resp.api_ready = "true" THEN "ready" ELSE "error"

\* an effect that synthesizes a chat on every run
NeedsDefaultChat_Always(cs) == TRUE

\* the condition of the default-chat effect, line 65
NeedsDefaultChat(cs) == Len(cs) = 0

NoOp == [op |-> "none", ok |-> FALSE, req |-> <<>>, resp |-> <<>>]
Op(name, ok) == [op |-> name, ok |-> ok, req |-> <<>>, resp |-> <<>>]

----------------------------------------------------------------------------
(* Initial state: the values of the useState calls, before any effect ran *)

Init ==
    /\ chats = <<>>
    /\ activeChatId = Null
    /\ message = <<>>
    /\ loading = FALSE
    /\ error = Null
    /\ backendStatus = "checking"
    /\ now = 0
    /\ pending = <<>>
    /\ health = "mount"
    /\ probes = 0
    /\ effectPending = TRUE
    /\ clearedSince = FALSE
    /\ lastDispatch = [phase |-> "none", resp |-> <<>>]
    /\ lastOp = NoOp

----------------------------------------------------------------------------
(* Actions *)

\* the passage of wall-clock time
Tick ==
    /\ now < MaxClock
    /\ now' = now + 1
    /\ lastOp' = Op("tick", TRUE)
    /\ UNCHANGED <<chats, activeChatId, message, loading, error, backendStatus,
                   pending, health, probes, effectPending, clearedSince,
                   lastDispatch>>

\* a default-chat effect that leaves the active id alone
DefaultChatEffect_NoActivate ==
    /\ effectPending
    /\ IF NeedsDefaultChat(chats)
       THEN /\ chats' = << [id |-> NumToString(now), title |-> <<"C", "h", "a", "t">>,
                            messages |-> <<>>, createdAt |-> now] >>
            /\ UNCHANGED activeChatId
            /\ effectPending' = TRUE
            /\ lastOp' = Op("effect", TRUE)
       ELSE /\ UNCHANGED <<chats, activeChatId>>
            /\ effectPending' = FALSE
            /\ lastOp' = Op("effect", FALSE)
    /\ UNCHANGED <<message, loading, error, backendStatus, now, pending,
                   health, probes, clearedSince,
                   lastDispatch>>

\* useEffect(..., [chats]), lines 64-71: runs after mount and after every
\* render in which chats changed
DefaultChatEffect ==
    /\ effectPending
    /\ IF NeedsDefaultChat(chats)
       THEN /\ chats' = << [id |-> NumToString(now), title |-> <<"C", "h", "a", "t">>,
                            messages |-> <<>>, createdAt |-> now] >>
            /\ activeChatId' = NumToString(now)
            /\ effectPending' = TRUE
            /\ lastOp' = Op("effect", TRUE)
       ELSE /\ UNCHANGED <<chats, activeChatId>>
            /\ effectPending' = FALSE
            /\ lastOp' = Op("effect", FALSE)
    /\ UNCHANGED <<message, loading, error, backendStatus, now, pending,
                   health, probes, clearedSince,
                   lastDispatch>>

\* the textarea's onChange, line 239; the textarea is disabled while there is
\* no active chat or a call is outstanding, line 243
SetMessage(t) ==
    /\ HasActiveChat /\ ~loading
    /\ message' = t
    /\ lastOp' = Op("setMessage", TRUE)
    /\ UNCHANGED <<chats, activeChatId, loading, error, backendStatus, now,
                   pending, health, probes, effectPending, clearedSince,
                   lastDispatch>>

\* handleSend up to its await, lines 73-86
HandleSend ==
    IF SendAllowed /\ Len(LogOf(activeChatId)) < MaxMsgs
    THEN LET id == NumToString(now)
             newMsg == [id |-> id, text |-> Trim(message), sender |-> "user",
                        timestamp |-> now]
             \* the closure of the call; raw and logAtStart are history fields
             req == [id |-> id, activeChatId |-> activeChatId,
                     text |-> Trim(message), raw |-> message,
                     logAtStart |-> LogOf(activeChatId)]
         IN /\ chats' = AppendTo(chats, activeChatId, newMsg)
            /\ message' = <<>>
            /\ loading' = TRUE
            /\ error' = Null
            /\ pending' = Append(pending, req)
            /\ effectPending' = TRUE
            /\ clearedSince' = FALSE
            /\ lastDispatch' = [phase |-> "inflight", resp |-> <<>>]
            /\ lastOp' = [op |-> "handleSend", ok |-> TRUE, req |-> req, resp |-> <<>>]
            /\ UNCHANGED <<activeChatId, backendStatus, now, health, probes>>
    ELSE /\ ~SendAllowed
         /\ lastOp' = Op("handleSend", FALSE)
         /\ UNCHANGED <<chats, activeChatId, message, loading, error, backendStatus,
                        now, pending, health, probes, effectPending, clearedSince,
                   lastDispatch>>

\* handleSend after its await, lines 86-100: the call made by the closure
\* pending[i] settles with resp; everything the continuation reads besides
\* prev is the closure's
HandleSendComplete(i, resp) ==
    LET req == pending[i]
        r == sendToWatson(resp)
        botMsg == [id |-> req.id \o BotSuffix, text |-> r.value, sender |-> "bot",
                   timestamp |-> now]
        msg == CatchMessage(r)
        errMsg == [id |-> req.id \o ErrSuffix, text |-> ErrorMarker \o msg,
                   sender |-> "bot", timestamp |-> now]
    IN /\ IF ~r.thrown
          THEN /\ chats' = AppendTo(chats, req.activeChatId, botMsg)
               /\ UNCHANGED error
          ELSE /\ error' = msg
               /\ chats' = AppendTo(chats, req.activeChatId, errMsg)
       /\ loading' = FinallyLoading(r)
       /\ pending' = [j \in 1..(Len(pending) - 1) |->
                         IF j < i THEN pending[j] ELSE pending[j + 1]]
       /\ effectPending' = TRUE
       /\ lastOp' = [op |-> "handleSendComplete", ok |-> ~r.thrown, req |-> req,
                     resp |-> resp]
       /\ UNCHANGED <<activeChatId, message, backendStatus, now, health, probes,
                      clearedSince>>
       /\ lastDispatch' = [phase |-> "done", resp |-> resp]

\* handleClearChat, lines 107-112
HandleClearChat ==
    IF Falsy(activeChatId)
    THEN /\ lastOp' = Op("handleClearChat", FALSE)
         /\ UNCHANGED <<chats, activeChatId, message, loading, error, backendStatus,
                        now, pending, health, probes, effectPending, clearedSince,
                   lastDispatch>>
    ELSE /\ chats' = ClearIn(chats, activeChatId)
         /\ effectPending' = TRUE
         /\ clearedSince' = TRUE
         /\ UNCHANGED lastDispatch
         /\ lastOp' = Op("handleClearChat", TRUE)
         /\ UNCHANGED <<activeChatId, message, loading, error, backendStatus, now,
                        pending, health, probes>>

\* the chat list button's onClick, line 161
SelectChat(i) ==
    /\ activeChatId' = chats[i].id
    /\ lastOp' = Op("selectChat", TRUE)
    /\ UNCHANGED <<chats, message, loading, error, backendStatus, now, pending,
                   health, probes, effectPending, clearedSince,
                   lastDispatch>>

\* useEffect(() => { checkBackendHealth(); }, []), line 44, up to the await on
\* line 48: the probe is issued once, after mount
CheckBackendHealth ==
    /\ health = "mount"
    /\ health' = "inflight"
    /\ probes' = probes + 1
    /\ lastOp' = Op("checkBackendHealth", TRUE)
    /\ UNCHANGED <<chats, activeChatId, message, loading, error, backendStatus,
                   now, pending, effectPending, clearedSince,
                   lastDispatch>>

\* checkBackendHealth after its await, lines 48-51
CheckBackendHealthComplete(resp) ==
    /\ health = "inflight"
    /\ health' = "done"
    /\ backendStatus' = HealthStatus(resp)
    /\ lastOp' = [op |-> "checkBackendHealthComplete", ok |-> TRUE, req |-> <<>>,
                  resp |-> resp]
    /\ UNCHANGED <<chats, activeChatId, message, loading, error, now, pending,
                   probes, effectPending, clearedSince,
                   lastDispatch>>

Next ==
    \/ Tick
    \/ DefaultChatEffect
    \/ \E t \in ComposerTexts : SetMessage(t)
    \/ HandleSend
    \/ \E i \in 1..Len(pending) : \E resp \in ChatResponses : HandleSendComplete(i, resp)
    \/ HandleClearChat
    \/ \E i \in 1..Len(chats) : SelectChat(i)
    \/ CheckBackendHealth
    \/ \E resp \in HealthResponses : CheckBackendHealthComplete(resp)

Spec == Init /\ [][Next]_vars

\* every chat request settles: fetch resolves or rejects
SendSettles == \E i \in 1..Len(pending) : \E resp \in ChatResponses : HandleSendComplete(i, resp)

LiveSpec == Spec /\ WF_vars(SendSettles)

----------------------------------------------------------------------------
(* Vocabulary of the properties *)

AllWhiteSpace(s) == \A k \in 1..Len(s) : s[k] \in WhiteSpace

\* t is raw without its leading and trailing white space
IsTrimOf(t, raw) ==
    /\ t = <<>> \/ (t[1] \notin WhiteSpace /\ t[Len(t)] \notin WhiteSpace)
    /\ \E a \in 0..Len(raw) : \E b \in a..Len(raw) :
          /\ AllWhiteSpace(SubSeq(raw, 1, a))
          /\ t = SubSeq(raw, a + 1, b)
          /\ AllWhiteSpace(SubSeq(raw, b + 1, Len(raw)))

\* d occurs in t
Contains(t, d) ==
    Len(d) <= Len(t) /\ \E k \in 0..(Len(t) - Len(d)) : SubSeq(t, k + 1, k + Len(d)) = d

IsString(v) == v # Null /\ v # Undefined

SendStarted == lastOp.op = "handleSend" /\ lastOp.ok
SendRejected == lastOp.op = "handleSend" /\ ~lastOp.ok
SendCompleted == lastOp.op = "handleSendComplete"
SendSucceeded == SendCompleted /\ lastOp.ok
SendFailed == SendCompleted /\ ~lastOp.ok

\* the log of the chat the completed (or started) dispatch of lastOp targets
TargetLog == LogOf(lastOp.req.activeChatId)

\* log is start followed by a user message with the trimmed composer text and
\* a bot message with text r
IsStartPlusPair(log, req, r) ==
    LET n == Len(req.logAtStart)
    IN /\ Len(log) = n + 2
       /\ SubSeq(log, 1, n) = req.logAtStart
       /\ log[n + 1].sender = "user"
       /\ IsTrimOf(log[n + 1].text, req.raw)
       /\ log[n + 2].sender = "bot"
       /\ log[n + 2].text = r

----------------------------------------------------------------------------
(* C1 *)

\* C1: at most one chat request is outstanding and loading is true exactly
\* when one is; handleSend invoked while loading is true issues no request
\* and appends no message.
C1_SingleFlight ==
    /\ [](Len(pending) <= 1 /\ (loading <=> Len(pending) = 1))
    /\ [][(lastOp'.op = "handleSend" /\ loading)
            => (pending' = pending /\ chats' = chats /\ loading')]_vars

\* handleSend was invoked while a request was outstanding
C1_Witness == SendRejected /\ loading /\ Len(pending) = 1

----------------------------------------------------------------------------
(* C2 *)

\* C2 as stated: after a successful dispatch the target log is its log at
\* dispatch start followed by the user message and the bot message, and
\* loading is false, whatever happened while the call was outstanding.
C2_AsStated ==
    SendSucceeded =>
        /\ IsStartPlusPair(TargetLog, lastOp.req, lastOp.resp.field)
        /\ ~loading

\* C2 (amended): after a successful dispatch loading is false and the target
\* log is its log at dispatch start followed by the user message (trimmed
\* composer text) and the bot message (the reply), provided handleClearChat
\* did not run while the call was outstanding; if it did, the log is the bot
\* message alone.
C2_SuccessfulSend ==
    SendSucceeded =>
        /\ ~loading
        /\ ~clearedSince => IsStartPlusPair(TargetLog, lastOp.req, lastOp.resp.field)
        /\ clearedSince =>
              /\ Len(TargetLog) = 1
              /\ TargetLog[1].sender = "bot"
              /\ TargetLog[1].text = lastOp.resp.field

\* a successful dispatch completed on a log that was not empty at its start
C2_Witness ==
    /\ SendSucceeded
    /\ ~clearedSince
    /\ Len(lastOp.req.logAtStart) > 0
    /\ IsString(lastOp.resp.field)
    /\ lastOp.req.raw # lastOp.req.text

----------------------------------------------------------------------------
(* C3 *)

\* the completed call answered non-2xx with a JSON body whose detail is a
\* non-empty string
FailedWithDetail(op) ==
    /\ op.op = "handleSendComplete"
    /\ op.resp.kind = "http" /\ ~op.resp.ok /\ op.resp.json
    /\ IsString(op.resp.field) /\ op.resp.field # <<>>

\* C3: a dispatch whose call returns a non-2xx status with a JSON body
\* carrying a (non-empty) detail d appends a user message at its start and,
\* at completion, a bot message whose text contains d; error is then d and
\* loading is false.
C3_FailedSendWithDetail ==
    /\ [][(lastOp'.op = "handleSend" /\ lastOp'.ok) =>
            LET log == LogOf(lastOp'.req.activeChatId)
                logAfter == LogIn(chats', lastOp'.req.activeChatId)
            IN /\ Len(logAfter) = Len(log) + 1
               /\ SubSeq(logAfter, 1, Len(log)) = log
               /\ logAfter[Len(logAfter)].sender = "user"
               /\ logAfter[Len(logAfter)].id = lastOp'.req.id]_vars
    /\ [][FailedWithDetail(lastOp') =>
            LET log == LogOf(lastOp'.req.activeChatId)
                logAfter == LogIn(chats', lastOp'.req.activeChatId)
            IN /\ Len(logAfter) = Len(log) + 1
               /\ SubSeq(logAfter, 1, Len(log)) = log
               /\ logAfter[Len(logAfter)].sender = "bot"
               /\ Contains(logAfter[Len(logAfter)].text, lastOp'.resp.field)
               /\ error' = lastOp'.resp.field
               /\ ~loading']_vars

\* a dispatch failed with a detail and its user message is still in the log
C3_Witness ==
    /\ FailedWithDetail(lastOp)
    /\ ~clearedSince
    /\ Len(TargetLog) >= 2
    /\ TargetLog[Len(TargetLog) - 1].id = lastOp.req.id
    /\ error = lastOp.resp.field

----------------------------------------------------------------------------
(* C4 *)

\* m is the bot message (reply or error) of the user message u
IsBotOf(m, u) ==
    /\ m.sender = "bot" /\ u.sender = "user"
    /\ m.id = u.id \o <<"_", "b", "o", "t">> \/ m.id = u.id \o <<"_", "e", "r", "r">>

\* C4 as stated: every bot message is immediately preceded by its user
\* message, and every user message but the last is followed by a bot message.
C4_AsStated ==
    \A c \in 1..Len(chats) :
        LET log == chats[c].messages
        IN \A k \in 1..Len(log) :
              /\ log[k].sender = "bot" => (k > 1 /\ IsBotOf(log[k], log[k - 1]))
              /\ (log[k].sender = "user" /\ k < Len(log)) => log[k + 1].sender = "bot"

\* C4 (amended): every bot message that is not first in its log is
\* immediately preceded by the user message that triggered it, and every user
\* message but the last is followed by a bot message; a log may start with
\* one bot message whose user message handleClearChat removed while the call
\* was outstanding.  So a log is an optional orphan bot message, complete
\* user/bot pairs, and an optional unanswered user message, which is there
\* only while a call is outstanding.
C4_PairedLogs ==
    \A c \in 1..Len(chats) :
        LET log == chats[c].messages
        IN \A k \in 1..Len(log) :
              /\ (log[k].sender = "bot" /\ k > 1) => IsBotOf(log[k], log[k - 1])
              /\ (log[k].sender = "user" /\ k < Len(log)) => log[k + 1].sender = "bot"
              /\ (log[k].sender = "user" /\ k = Len(log)) => loading

\* an orphan bot message followed by a complete pair
C4_Witness ==
    \E c \in 1..Len(chats) :
        LET log == chats[c].messages
        IN /\ Len(log) >= 3
           /\ log[1].sender = "bot"
           /\ log[2].sender = "user"
           /\ IsBotOf(log[3], log[2])

----------------------------------------------------------------------------
(* C5 *)

\* C5: whenever chats is non-empty, activeChatId is non-null and is the id of
\* a chat in chats.
C5_ActiveChatExists ==
    Len(chats) > 0 =>
        /\ activeChatId # Null
        /\ \E i \in 1..Len(chats) : chats[i].id = activeChatId

\* a chat was selected from the list while a call was outstanding
C5_Witness == Len(chats) > 0 /\ lastOp.op = "selectChat" /\ loading

----------------------------------------------------------------------------
(* C6 *)

\* C6: the step that makes chats non-empty is the default-chat effect and
\* leaves exactly one chat, with an empty log, which is active; from then on
\* chats holds exactly that chat (same id, title and createdAt).
C6_OneDefaultChat ==
    /\ [](Len(chats) <= 1)
    /\ [][(Len(chats) = 0 /\ Len(chats') > 0) =>
            /\ lastOp'.op = "effect"
            /\ Len(chats') = 1
            /\ chats'[1].messages = <<>>
            /\ activeChatId' = chats'[1].id]_vars
    /\ [][Len(chats) > 0 =>
            /\ Len(chats') = 1
            /\ chats'[1].id = chats[1].id
            /\ chats'[1].title = chats[1].title
            /\ chats'[1].createdAt = chats[1].createdAt]_vars

\* the effect ran again, after the chat was created and later modified
C6_Witness ==
    /\ lastOp.op = "effect" /\ ~lastOp.ok
    /\ Len(chats) = 1
    /\ Len(chats[1].messages) >= 2
    /\ now > chats[1].createdAt

----------------------------------------------------------------------------
(* C7 *)

\* C7: handleSend invoked with a composer text that is empty or only white
\* space, or with loading true, or with activeChatId null, changes none of
\* chats, activeChatId, composer text, loading, error, and issues no request.
C7_RejectedSendIsNoOp ==
    [][(lastOp'.op = "handleSend"
         /\ (AllWhiteSpace(message) \/ loading \/ activeChatId = Null))
        => UNCHANGED <<chats, activeChatId, message, loading, error, pending>>]_vars

\* handleSend was invoked with a white-space-only text, an active chat and no
\* call outstanding
C7_Witness ==
    /\ SendRejected
    /\ message # <<>> /\ AllWhiteSpace(message)
    /\ ~loading /\ HasActiveChat

----------------------------------------------------------------------------
(* C8 *)

\* C8: handleClearChat with an active chat empties that chat's log and
\* changes nothing else (the chat's id, title, createdAt, the other chats,
\* activeChatId, loading, error, composer text, backendStatus, the
\* outstanding call); with activeChatId null it changes nothing.
C8_ClearFrame ==
    [][lastOp'.op = "handleClearChat" =>
        /\ UNCHANGED <<activeChatId, loading, error, message, backendStatus, pending>>
        /\ Len(chats') = Len(chats)
        /\ \A i \in 1..Len(chats) :
              /\ chats'[i].id = chats[i].id
              /\ chats'[i].title = chats[i].title
              /\ chats'[i].createdAt = chats[i].createdAt
              /\ chats'[i].messages =
                    IF activeChatId # Null /\ chats[i].id = activeChatId
                    THEN <<>>
                    ELSE chats[i].messages
        /\ activeChatId = Null => chats' = chats]_vars

\* handleClearChat emptied the log that held the user message of the
\* outstanding call
C8_Witness ==
    /\ lastOp.op = "handleClearChat" /\ lastOp.ok
    /\ Len(pending) = 1 /\ clearedSince
    /\ LogOf(pending[1].activeChatId) = <<>>
    /\ Len(chats) = 1

----------------------------------------------------------------------------
(* C9 *)

----------------------------------------------------------------------------
(* C10 *)

\* C10: if every chat request settles, every state with loading true is
\* followed by a state with loading false, and whenever loading is false and
\* a chat is active the composer accepts a new text, with which handleSend
\* proceeds.
C10_SendingEnds ==
    /\ loading ~> ~loading
    /\ []((~loading /\ HasActiveChat) =>
            \A t \in ComposerTexts :
                /\ ENABLED SetMessage(t)
                /\ (message = t /\ ~AllWhiteSpace(t)) => SendAllowed)

\* a failed dispatch has completed and the composer holds a new text
C10_Witness ==
    /\ ~loading /\ error # Null
    /\ lastOp.op = "setMessage" /\ ~AllWhiteSpace(message)
    /\ SendAllowed

----------------------------------------------------------------------------
(* C11 *)

\* a step of handleSend that started a dispatch / of its continuation
StartStep == lastOp'.op = "handleSend" /\ lastOp'.ok /\ pending' # pending
CompleteStep == lastOp'.op = "handleSendComplete" /\ pending' # pending

\* after is before followed by one more message
IsAppend(after, before) ==
    /\ Len(after) = Len(before) + 1
    /\ SubSeq(after, 1, Len(before)) = before

\* every chat of cs but the one with the given id is the same in cs2
OthersUntouched(cs, cs2, id) ==
    /\ Len(cs2) = Len(cs)
    /\ \A i \in 1..Len(cs) : cs[i].id # id => cs2[i] = cs[i]

----------------------------------------------------------------------------
(* C12 *)

\* C12: no two messages of the same log have the same id.
C12_UniqueIds ==
    \A c \in 1..Len(chats) :
        LET log == chats[c].messages
        IN \A j, k \in 1..Len(log) : j # k => log[j].id # log[k].id

----------------------------------------------------------------------------
(* C13 *)

\* the answer is one of the three failures: network error, non-2xx status,
\* or a 2xx answer whose body does not parse or has no response string
IsFailure(resp) ==
    \/ resp.kind = "network"
    \/ ~resp.ok
    \/ ~resp.json
    \/ ~IsString(resp.field)

\* the last message of the target log is the error bot message for error
EndsWithErrorMessage(log) ==
    /\ Len(log) >= 1
    /\ log[Len(log)].sender = "bot"
    /\ error # Null
    /\ log[Len(log)].text = <<"U+26A0 U+FE0F", " ">> \o error

\* C13: every dispatch whose call failed (network error, non-2xx status,
\* malformed 2xx answer) ends with an error bot message, the marker followed
\* by the failure reason, and with error set to that reason.
C13_EveryFailureSurfaced ==
    (SendCompleted /\ IsFailure(lastOp.resp)) => EndsWithErrorMessage(TargetLog)

----------------------------------------------------------------------------
(* C14 *)

\* the reason C14 gives for a non-2xx answer
ExpectedReason(resp) ==
    IF resp.json /\ IsString(resp.field) /\ resp.field # <<>>
    THEN resp.field
    ELSE <<"Request failed">>

\* C14: after a dispatch whose call answered non-2xx, error and the error
\* bot message carry the body's detail when there is one and "Request failed"
\* in every other case.
C14_NonOkReason ==
    (SendCompleted /\ lastOp.resp.kind = "http" /\ ~lastOp.resp.ok) =>
        /\ error = ExpectedReason(lastOp.resp)
        /\ EndsWithErrorMessage(TargetLog)

----------------------------------------------------------------------------
(* C15 *)

BotCount(log) == Cardinality({k \in 1..Len(log) : log[k].sender = "bot"})

RECURSIVE TotalBots(_)
TotalBots(cs) ==
    IF cs = <<>> THEN 0 ELSE BotCount(Head(cs).messages) + TotalBots(Tail(cs))

\* C15: a started dispatch leaves the outstanding calls only by completing,
\* its completion appends exactly one bot message (the reply or the error
\* message) to its target log, no other step adds a bot message, and, every
\* call settling, every outstanding dispatch does complete, whatever
\* handleClearChat, chat selection or send attempts happen meanwhile.
C15_NoCancellation ==
    /\ [][Len(pending') < Len(pending) => CompleteStep]_vars
    /\ [][CompleteStep =>
            LET before == LogIn(chats, lastOp'.req.activeChatId)
                after == LogIn(chats', lastOp'.req.activeChatId)
            IN /\ Len(pending') = Len(pending) - 1
               /\ IsAppend(after, before)
               /\ after[Len(after)].sender = "bot"
               /\ TotalBots(chats') = TotalBots(chats) + 1]_vars
    /\ [][TotalBots(chats') > TotalBots(chats) => CompleteStep]_vars
    /\ (Len(pending) > 0) ~> (SendCompleted /\ Len(pending) = 0)

\* a dispatch completed after handleClearChat ran while its call was
\* outstanding: its bot message is in the log
C15_Witness ==
    /\ SendCompleted
    /\ clearedSince
    /\ BotCount(TargetLog) = 1
    /\ TargetLog[Len(TargetLog)].id \in
          {lastOp.req.id \o <<"_", "b", "o", "t">>, lastOp.req.id \o <<"_", "e", "r", "r">>}

----------------------------------------------------------------------------
(* C16 *)

\* C16: a handleSend step proceeds exactly when the composer text is not
\* blank, loading is false and activeChatId is not null, whatever
\* backendStatus is, and leaves backendStatus alone; issuing the probe and
\* its completion leave chats, activeChatId, composer text, loading, error
\* and the outstanding calls unchanged.
C16_ProbeIndependent ==
    /\ [][lastOp'.op = "handleSend" =>
            /\ lastOp'.ok <=>
                  (~AllWhiteSpace(message) /\ ~loading /\ activeChatId # Null)
            /\ backendStatus' = backendStatus
            /\ UNCHANGED <<health, probes>>]_vars
    /\ [][lastOp'.op = "handleSendComplete" =>
            UNCHANGED <<backendStatus, health, probes>>]_vars
    /\ [][lastOp'.op \in {"checkBackendHealth", "checkBackendHealthComplete"} =>
            UNCHANGED <<chats, activeChatId, message, loading, error, pending>>]_vars

\* a dispatch started after the probe had reported an error
C16_Witness ==
    /\ SendStarted
    /\ backendStatus = "error"
    /\ loading /\ Len(pending) = 1

----------------------------------------------------------------------------
(* C17 *)

\* C17: error is non-null if and only if the most recently started dispatch
\* has completed with a failure (network error, non-2xx status or malformed
\* 2xx answer).
C17_ErrorIffFailed ==
    error # Null <=> (lastDispatch.phase = "done" /\ IsFailure(lastDispatch.resp))

\* what the code keeps instead: error is non-null if and only if the call of
\* the most recently started dispatch threw (fetch rejected, the body did
\* not parse, or the status was not 2xx), and only handleSend changes error
ErrorIffCallThrew ==
    /\ [](error # Null <=>
            /\ lastDispatch.phase = "done"
            /\ \/ lastDispatch.resp.kind = "network"
               \/ ~lastDispatch.resp.json
               \/ ~lastDispatch.resp.ok)
    /\ [][error' # error => lastOp'.op \in {"handleSend", "handleSendComplete"}]_vars

====
